---- MODULE Spec2Model ----
(***************************************************************************)
(* Model of streamlit_app.py: the Statcast loader with its one fallback,   *)
(* the out-pitch classification, the two pitch-type aggregations, the      *)
(* player-name formatting and the page script that wires them together.    *)
(*                                                                         *)
(* Strings that the program takes apart (player names) are sequences of    *)
(* one-character strings; strings it only compares (pitch codes, event     *)
(* outcomes, messages) are TLA+ strings.  Percentages are integers in      *)
(* hundredths of a percent (6667 is 66.67).                                *)
(***************************************************************************)
EXTENDS Integers, Sequences, FiniteSets, TLC

VARIABLES pc, year, min_pitches, attempts, messages, data,
          player_names_dict, formatted_to_original, formatted_player_names,
          selected_formatted_player, selected_player,
          pitch_results, league_avg, comparison_data, rendered, divisions,
          name, formatted

vars == <<pc, year, min_pitches, attempts, messages, data,
          player_names_dict, formatted_to_original, formatted_player_names,
          selected_formatted_player, selected_player,
          pitch_results, league_avg, comparison_data, rendered, divisions,
          name, formatted>>

----------------------------------------------------------------------------
(* Bounds of the model *)

\* longest player name drawn for format_player_name
MaxNameLen == 4
\* most pitch events in a dataset handed to the aggregations
MaxEvents == 3
\* most pitch events in a dataset handed to calculate_out_percentage alone
MaxClassifyLen == 2
\* most pitch events in a dataset a fetch returns to the page
MaxPageEvents == 3
\* largest slider position drawn for min_pitches
MaxMinPitches == 2

(* Constants of the program *)

\* slider: min_value=1, max_value=150
SliderMin == 1
SliderMax == 150
\* timedelta(days=21)
FallbackDays == 21

Min(a, b) == IF a <= b THEN a ELSE b

----------------------------------------------------------------------------
(* Values *)

\* pandas NaN / None in a string column
NaN == "NaN"
\* a missing player_name
NameNaN == <<"NaN">>
\* Python None as returned by a select box without options
NoneName == <<"None">>

Whitespace == {" "}
Alphabet == {"a", "b", ",", " "}

\* code points, for the order sorted() puts strings in
CharRank(c) ==
    CASE c = " " -> 32
      [] c = "," -> 44
      [] c = "a" -> 97
      [] c = "b" -> 98
      [] OTHER -> 0

RECURSIVE LexLess(_, _)
LexLess(s, t) ==
    IF s = <<>> THEN t # <<>>
    ELSE IF t = <<>> THEN FALSE
    ELSE IF CharRank(Head(s)) # CharRank(Head(t))
         THEN CharRank(Head(s)) < CharRank(Head(t))
         ELSE LexLess(Tail(s), Tail(t))

----------------------------------------------------------------------------
(* format_player_name *)

HasComma(s) == \E i \in 1..Len(s) : s[i] = ","

\* index of the first "," of s, scanning from the left (s has one)
RECURSIVE FindComma(_, _)
FindComma(s, i) == IF s[i] = "," THEN i ELSE FindComma(s, i + 1)

\* index of the last "," of s, scanning from the right (s has one)
RECURSIVE FindLastComma(_, _)
FindLastComma(s, i) == IF s[i] = "," THEN i ELSE FindLastComma(s, i - 1)

RECURSIVE LStrip(_)
LStrip(s) == IF s # <<>> /\ Head(s) \in Whitespace THEN LStrip(Tail(s)) ELSE s

RECURSIVE RStrip(_)
RStrip(s) ==
    IF s # <<>> /\ s[Len(s)] \in Whitespace
    THEN RStrip(SubSeq(s, 1, Len(s) - 1)) ELSE s

\* str.strip()
Strip(s) == RStrip(LStrip(s))

\* name.split(',', 1): <<text before the first comma, text after it>>
SplitRightmost(s) ==
    LET i == FindLastComma(s, Len(s))
    IN  <<SubSeq(s, 1, i - 1), SubSeq(s, i + 1, Len(s))>>

SplitFirst(s) ==
    LET i == FindComma(s, 1)
    IN  <<SubSeq(s, 1, i - 1), SubSeq(s, i + 1, Len(s))>>

format_player_name(s) ==
    IF HasComma(s)
    THEN LET parts == SplitFirst(s)
             last_name == parts[1]
             first_name == parts[2]
         IN  Strip(first_name) \o <<" ">> \o Strip(last_name)
    ELSE s

RECURSIVE SeqsUpTo(_, _)
SeqsUpTo(S, n) ==
    IF n = 0 THEN {<<>>}
    ELSE LET shorter == SeqsUpTo(S, n - 1)
         IN  shorter \cup {Append(s, c) : s \in {t \in shorter : Len(t) = n - 1}, c \in S}

NameStrings == SeqsUpTo(Alphabet, MaxNameLen)

----------------------------------------------------------------------------
(* Data frames: [columns: the set of column names, rows: the sequence of
   rows].  pd.DataFrame() has neither columns nor rows. *)

RawColumns == {"player_name", "game_year", "pitch_type", "events"}

PitchEvent(p, y, t, o) ==
    [player_name |-> p, game_year |-> y, pitch_type |-> t, events |-> o]

\* DataFrame.empty
IsEmpty(d) == d.columns = {} \/ d.rows = <<>>

----------------------------------------------------------------------------
(* calculate_out_percentage *)

out_events_without_last ==
    {"field_out", "strikeout", "grounded_into_double_play", "fielders_choice_out",
     "force_out", "sac_fly", "sac_bunt", "strikeout_double_play", "double_play",
     "sac_fly_double_play", "other_out", "triple_play"}

out_events ==
    {"field_out", "strikeout", "grounded_into_double_play", "fielders_choice_out",
     "force_out", "sac_fly", "sac_bunt", "strikeout_double_play", "double_play",
     "sac_fly_double_play", "other_out", "triple_play", "sac_bunt_double_play"}

\* data['events'].isin(out_events).astype(bool), stored as column IsOutPitch
\* of the same frame
calculate_out_percentage(d) ==
    [columns |-> d.columns \cup {"IsOutPitch"},
     rows |-> [i \in 1..Len(d.rows) |->
                 [player_name |-> d.rows[i].player_name,
                  game_year |-> d.rows[i].game_year,
                  pitch_type |-> d.rows[i].pitch_type,
                  events |-> d.rows[i].events,
                  IsOutPitch |-> d.rows[i].events \in out_events]]]

----------------------------------------------------------------------------
(* The two aggregations *)

pitch_type_map ==
    [c \in {"FF", "SL", "CH", "CU", "SI", "FC", "FS", "FT", "KC", "EP", "KN",
            "SC", "ST", "SV"} |->
        CASE c = "FF" -> "Four-Seam Fastball"
          [] c = "SL" -> "Slider"
          [] c = "CH" -> "Changeup"
          [] c = "CU" -> "Curveball"
          [] c = "SI" -> "Sinker"
          [] c = "FC" -> "Cutter"
          [] c = "FS" -> "Splitter"
          [] c = "FT" -> "Two-Seam Fastball"
          [] c = "KC" -> "Knuckle Curve"
          [] c = "EP" -> "Eephus"
          [] c = "KN" -> "Knuckleball"
          [] c = "SC" -> "Screwball"
          [] c = "ST" -> "Sweeper"
          [] c = "SV" -> "Slurve"]

\* pitch_type_map.get(x, x)
PitchName(x) == IF x \in DOMAIN pitch_type_map THEN pitch_type_map[x] ELSE x

\* the pitch codes of the model in the order groupby sorts its keys
PitchCodeOrder ==
    <<"CH", "CU", "EP", "FC", "FF", "FS", "FT", "KC", "KN", "SC", "SI", "SL",
      "ST", "SV", "XY">>

\* a grouping that keeps every known category, also those without a row
GroupKeysAllCategories(rows) == PitchCodeOrder

\* groupby('pitch_type'): one group per pitch type that occurs in rows, NaN
\* dropped, keys sorted
GroupKeys(rows) ==
    LET present == {rows[i].pitch_type : i \in 1..Len(rows)} \ {NaN}
        Occurs(c) == c \in present
    IN  SelectSeq(PitchCodeOrder, Occurs)

\* agg 'count' over a group
RECURSIVE CountPitches(_, _)
CountPitches(rows, key) ==
    IF rows = <<>> THEN 0
    ELSE (IF Head(rows).pitch_type = key THEN 1 ELSE 0) + CountPitches(Tail(rows), key)

\* agg 'sum' of the boolean IsOutPitch over a group
RECURSIVE SumOutPitches(_, _)
SumOutPitches(rows, key) ==
    IF rows = <<>> THEN 0
    ELSE (IF Head(rows).pitch_type = key /\ Head(rows).IsOutPitch THEN 1 ELSE 0)
         + SumOutPitches(Tail(rows), key)

\* the result of a division by zero in pandas/numpy: no exception, NaN
NaNPct == -1

\* out / total * 100 cut to 2 decimals instead of rounded
TruncPct(out, total) ==
    IF total = 0 THEN NaNPct ELSE (out * 10000) \div total

\* (out / total * 100).round(2), in hundredths; a tie goes to the even
\* neighbour
RoundPct(out, total) ==
    IF total = 0 THEN NaNPct
    ELSE LET q == (out * 10000) \div total
             r == (out * 10000) % total
         IN  IF 2 * r < total THEN q
             ELSE IF 2 * r > total THEN q + 1
             ELSE IF q % 2 = 0 THEN q ELSE q + 1

\* groupby(...).agg(...).reset_index() and the out_percentage column
Grouped(rows) ==
    LET keys == GroupKeys(rows)
    IN  [i \in 1..Len(keys) |->
            LET out == SumOutPitches(rows, keys[i])
                total == CountPitches(rows, keys[i])
            IN  [pitch_type |-> keys[i],
                 out_pitch_count |-> out,
                 total_pitches |-> total,
                 out_percentage |-> RoundPct(out, total)]]

\* a threshold that keeps only groups above min_pitches
ThresholdStrict(groups, minp) ==
    LET Enough(g) == g.total_pitches > minp
    IN  SelectSeq(groups, Enough)

\* results[results['total_pitches'] >= min_pitches]
Threshold(groups, minp) ==
    LET Enough(g) == g.total_pitches >= minp
    IN  SelectSeq(groups, Enough)

WithPitchName(groups) ==
    [i \in 1..Len(groups) |->
        [pitch_type |-> groups[i].pitch_type,
         out_pitch_count |-> groups[i].out_pitch_count,
         total_pitches |-> groups[i].total_pitches,
         out_percentage |-> groups[i].out_percentage,
         pitch_name |-> PitchName(groups[i].pitch_type)]]

\* a column lookup on a frame without that column raises KeyError
Raised == [raised |-> TRUE, groups |-> <<>>, rows |-> <<>>]

\* groups: every group that reached the division; rows: the returned frame
Aggregate(rows, minp) ==
    LET groups == Grouped(rows)
    IN  [raised |-> FALSE,
         groups |-> groups,
         rows |-> WithPitchName(Threshold(groups, minp))]

\* the denominators of the divisions an aggregation evaluated
Denominators(result) == {result.groups[i].total_pitches : i \in 1..Len(result.groups)}

\* == on a column: NaN equals nothing
SamePlayer(a, b) == a # NameNaN /\ b # NameNaN /\ a = b

get_out_percentage_by_pitch_type(d, player_name, yr, minp) ==
    IF ~({"player_name", "game_year", "pitch_type", "IsOutPitch"} \subseteq d.columns)
    THEN Raised
    ELSE LET Match(e) == SamePlayer(e.player_name, player_name) /\ e.game_year = yr
             player_data == SelectSeq(d.rows, Match)
         IN  Aggregate(player_data, minp)

\* a baseline taken over the season before the selected one
LeaguePreviousYear(d, yr, minp) ==
    IF ~({"game_year", "pitch_type", "IsOutPitch"} \subseteq d.columns)
    THEN Raised
    ELSE LET Match(e) == e.game_year = yr - 1
             year_data == SelectSeq(d.rows, Match)
         IN  Aggregate(year_data, minp)

get_league_avg_out_percentage(d, yr, minp) ==
    IF ~({"game_year", "pitch_type", "IsOutPitch"} \subseteq d.columns)
    THEN Raised
    ELSE LET Match(e) == e.game_year = yr
             year_data == SelectSeq(d.rows, Match)
         IN  Aggregate(year_data, minp)

----------------------------------------------------------------------------
(* Input datasets: the rows of a dataset are drawn from a small table of
   pitch events; a dataset lists its events in the order of that table. *)

Name1 == <<"b", ",", "a">>
Name2 == <<"a", " ", "b">>

YearList == <<2023, 2024>>
\* the season selected in the sidebar
SelectedYear == YearList[2]
PitchList == <<"FF", "XY", NaN>>
PagePitchList == <<"FF", "XY">>
OutcomeList == <<"strikeout", NaN>>

\* the k-th event (from 0) over the given players
EventOf(players, pitches, k) ==
    LET no == Len(OutcomeList)
        np == Len(pitches)
        ny == Len(YearList)
    IN  PitchEvent(players[(k \div (no * np * ny)) + 1],
                   YearList[((k \div (no * np)) % ny) + 1],
                   pitches[((k \div no) % np) + 1],
                   OutcomeList[(k % no) + 1])

NumEvents(players, pitches) ==
    Len(players) * Len(YearList) * Len(pitches) * Len(OutcomeList)

RECURSIVE Ascending(_, _, _)
\* the non-decreasing sequences of length n over lo..hi
Ascending(n, lo, hi) ==
    IF n = 0 THEN {<<>>}
    ELSE UNION {{<<k>> \o s : s \in Ascending(n - 1, k, hi)} : k \in lo..hi}

\* the datasets of up to maxLen events, each given by the list of its events'
\* places in the table
EventLists(players, pitches, maxLen) ==
    UNION {Ascending(n, 0, NumEvents(players, pitches) - 1) : n \in 0..maxLen}

RawFrame(players, pitches, s) ==
    [columns |-> RawColumns,
     rows |-> [i \in 1..Len(s) |-> EventOf(players, pitches, s[i])]]

AggPlayers == <<Name1, Name2>>
PagePlayers == <<Name1, Name2, NameNaN>>

AllOutcomes ==
    {"field_out", "strikeout", "grounded_into_double_play", "fielders_choice_out",
     "force_out", "sac_fly", "sac_bunt", "strikeout_double_play", "double_play",
     "sac_fly_double_play", "other_out", "triple_play", "sac_bunt_double_play",
     "single", "walk", NaN}

ClassifyFrames ==
    {[columns |-> RawColumns,
      rows |-> [i \in 1..Len(s) |-> PitchEvent(Name1, 2024, "FF", s[i])]] :
        s \in SeqsUpTo(AllOutcomes, MaxClassifyLen)}

MinPitchesRange == SliderMin..Min(SliderMax, MaxMinPitches)

----------------------------------------------------------------------------
(* Values the variables hold while the part of the program they belong to
   has not run *)

NoColumnsFrame == [columns |-> {}, rows |-> <<>>]
NoResult == [raised |-> FALSE, groups |-> <<>>, rows |-> <<>>]
EmptyDict == [k \in {} |-> <<>>]

Idle ==
    /\ year = 0
    /\ min_pitches = 0
    /\ attempts = <<>>
    /\ messages = <<>>
    /\ data = NoColumnsFrame
    /\ player_names_dict = EmptyDict
    /\ formatted_to_original = EmptyDict
    /\ formatted_player_names = <<>>
    /\ selected_formatted_player = NoneName
    /\ selected_player = NoneName
    /\ pitch_results = NoResult
    /\ league_avg = NoResult
    /\ comparison_data = <<>>
    /\ rendered = {}
    /\ divisions = {}

----------------------------------------------------------------------------
(* Specification of format_player_name over all short names *)

InitName ==
    /\ Idle
    /\ pc = "name_input"
    /\ name \in NameStrings
    /\ formatted = <<>>

FormatName ==
    /\ pc = "name_input"
    /\ formatted' = format_player_name(name)
    /\ pc' = "name_done"
    /\ UNCHANGED <<year, min_pitches, attempts, messages, data,
                   player_names_dict, formatted_to_original, formatted_player_names,
                   selected_formatted_player, selected_player,
                   pitch_results, league_avg, comparison_data, rendered,
                   divisions, name>>

NextName == FormatName

SpecName == InitName /\ [][NextName]_vars

----------------------------------------------------------------------------
(* Specification of calculate_out_percentage over every outcome value *)

InitClassify ==
    /\ pc = "classify_input"
    /\ year = 0
    /\ min_pitches = 0
    /\ attempts = <<>>
    /\ messages = <<>>
    /\ data \in ClassifyFrames
    /\ player_names_dict = EmptyDict
    /\ formatted_to_original = EmptyDict
    /\ formatted_player_names = <<>>
    /\ selected_formatted_player = NoneName
    /\ selected_player = NoneName
    /\ pitch_results = NoResult
    /\ league_avg = NoResult
    /\ comparison_data = <<>>
    /\ rendered = {}
    /\ divisions = {}
    /\ name = <<>>
    /\ formatted = <<>>

ClassifyOnly ==
    /\ pc = "classify_input"
    /\ data' = calculate_out_percentage(data)
    /\ pc' = "classify_done"
    /\ UNCHANGED <<year, min_pitches, attempts, messages,
                   player_names_dict, formatted_to_original, formatted_player_names,
                   selected_formatted_player, selected_player,
                   pitch_results, league_avg, comparison_data, rendered,
                   divisions, name, formatted>>

NextClassify == ClassifyOnly

SpecClassify == InitClassify /\ [][NextClassify]_vars

----------------------------------------------------------------------------
(* Specification of the two aggregations over classified datasets and over
   pd.DataFrame() *)

InitAgg ==
    /\ pc = "agg_input"
    /\ year = SelectedYear
    /\ min_pitches \in MinPitchesRange
    /\ attempts = <<>>
    /\ messages = <<>>
    /\ \E s \in EventLists(AggPlayers, PitchList, MaxEvents), has_columns \in BOOLEAN :
          /\ has_columns \/ s = <<>>
          /\ data = IF has_columns
                    THEN calculate_out_percentage(RawFrame(AggPlayers, PitchList, s))
                    ELSE NoColumnsFrame
    /\ player_names_dict = EmptyDict
    /\ formatted_to_original = EmptyDict
    /\ formatted_player_names = <<>>
    /\ selected_formatted_player = NoneName
    /\ selected_player = Name1
    /\ pitch_results = NoResult
    /\ league_avg = NoResult
    /\ comparison_data = <<>>
    /\ rendered = {}
    /\ divisions = {}
    /\ name = <<>>
    /\ formatted = <<>>

AggPlayer ==
    /\ pc = "agg_input"
    /\ pitch_results' = get_out_percentage_by_pitch_type(data, selected_player, year, min_pitches)
    /\ divisions' = divisions \cup Denominators(pitch_results')
    /\ pc' = "agg_player"
    /\ UNCHANGED <<year, min_pitches, attempts, messages, data,
                   player_names_dict, formatted_to_original, formatted_player_names,
                   selected_formatted_player, selected_player,
                   league_avg, comparison_data, rendered, name, formatted>>

AggLeague ==
    /\ pc = "agg_player"
    /\ league_avg' = get_league_avg_out_percentage(data, year, min_pitches)
    /\ divisions' = divisions \cup Denominators(league_avg')
    /\ pc' = "agg_league"
    /\ UNCHANGED <<year, min_pitches, attempts, messages, data,
                   player_names_dict, formatted_to_original, formatted_player_names,
                   selected_formatted_player, selected_player,
                   pitch_results, comparison_data, rendered, name, formatted>>

NextAgg == AggPlayer \/ AggLeague

SpecAgg == InitAgg /\ [][NextAgg]_vars

----------------------------------------------------------------------------
(* The page script: load_statcast_data, then the main flow *)

SeasonRange(start_year, end_year) == <<"season", start_year, 3, 1, end_year, 11, 30>>
FallbackRange == <<"last_days", FallbackDays>>

\* what a fetch that succeeds may return: a table with the Statcast columns
\* and any rows, none included, or a frame without columns for a range
\* without games
FetchedFrame(s, has_columns) ==
    IF has_columns THEN RawFrame(PagePlayers, PagePitchList, s) ELSE NoColumnsFrame

Attempt(range, ok, result) == [range |-> range, ok |-> ok, result |-> result]
Message(kind, text) == [kind |-> kind, text |-> text]

RECURSIVE SortNames(_)
\* sorted(S) for a set of distinct names
SortNames(S) ==
    IF S = {} THEN <<>>
    ELSE LET m == CHOOSE x \in S : \A y \in S \ {x} : LexLess(x, y)
         IN  <<m>> \o SortNames(S \ {m})

RECURSIVE InsertName(_, _)
InsertName(x, s) ==
    IF s = <<>> THEN <<x>>
    ELSE IF LexLess(Head(s), x) THEN <<Head(s)>> \o InsertName(x, Tail(s))
    ELSE <<x>> \o s

RECURSIVE SortNameSeq(_)
\* sorted(s) for a list of names, duplicates kept
SortNameSeq(s) == IF s = <<>> THEN <<>> ELSE InsertName(Head(s), SortNameSeq(Tail(s)))

\* d[key] = value
DictPut(d, key, value) ==
    [k \in DOMAIN d \cup {key} |-> IF k = key THEN value ELSE d[k]]

RECURSIVE FormattedToOriginal(_, _)
\* {format_player_name(name): name for name in keys}: a later name replaces
\* an earlier one with the same formatted name
FormattedToOriginal(keys, d) ==
    IF keys = <<>> THEN d
    ELSE FormattedToOriginal(Tail(keys), DictPut(d, format_player_name(Head(keys)), Head(keys)))

\* sorted(processed_data['player_name'].dropna().unique())
RawPlayerNames(d) == SortNames({d.rows[i].player_name : i \in 1..Len(d.rows)} \ {NameNaN})

RECURSIVE InsertDesc(_, _)
InsertDesc(x, s) ==
    IF s = <<>> THEN <<x>>
    ELSE IF Head(s).out_percentage >= x.out_percentage
         THEN <<Head(s)>> \o InsertDesc(x, Tail(s))
         ELSE <<x>> \o s

RECURSIVE SortByOutPercentageDesc(_)
\* sort_values('out_percentage', ascending=False); rows with equal
\* percentages are kept in their order
SortByOutPercentageDesc(s) ==
    IF s = <<>> THEN <<>>
    ELSE InsertDesc(s[Len(s)], SortByOutPercentageDesc(SubSeq(s, 1, Len(s) - 1)))

RECURSIVE SumField(_, _)
SumField(rows, f) == IF rows = <<>> THEN 0 ELSE Head(rows)[f] + SumField(Tail(rows), f)

\* the two bars of one pitch type in the comparison chart; from_league_row
\* records which branch of the league lookup gave the league bar
ComparisonBars(player_row, league, display_name) ==
    LET Same(r) == r.pitch_type = player_row.pitch_type
        league_row == SelectSeq(league.rows, Same)
        league_pct == IF league_row # <<>> THEN league_row[1].out_percentage ELSE 0
    IN  <<[PitchType |-> player_row.pitch_name,
           OutPercentage |-> player_row.out_percentage,
           Category |-> display_name,
           from_league_row |-> TRUE],
          [PitchType |-> player_row.pitch_name,
           OutPercentage |-> league_pct,
           Category |-> <<"League Average">>,
           from_league_row |-> league_row # <<>>]>>

RECURSIVE Comparison(_, _, _)
Comparison(sorted_rows, league, display_name) ==
    IF sorted_rows = <<>> THEN <<>>
    ELSE ComparisonBars(Head(sorted_rows), league, display_name)
         \o Comparison(Tail(sorted_rows), league, display_name)

Init ==
    /\ pc = "load_first"
    /\ year = SelectedYear
    /\ min_pitches \in MinPitchesRange
    /\ attempts = <<>>
    /\ messages = <<>>
    /\ data = NoColumnsFrame
    /\ player_names_dict = EmptyDict
    /\ formatted_to_original = EmptyDict
    /\ formatted_player_names = <<>>
    /\ selected_formatted_player = NoneName
    /\ selected_player = NoneName
    /\ pitch_results = NoResult
    /\ league_avg = NoResult
    /\ comparison_data = <<>>
    /\ rendered = {}
    /\ divisions = {}
    /\ name = <<>>
    /\ formatted = <<>>

PageUnchanged ==
    UNCHANGED <<year, min_pitches, player_names_dict, formatted_to_original,
                formatted_player_names, selected_formatted_player,
                selected_player, pitch_results, league_avg, comparison_data,
                rendered, divisions, name, formatted>>

\* statcast() for the requested range returns
LoadFirstSucceeds ==
    /\ pc = "load_first"
    /\ \E s \in EventLists(PagePlayers, PagePitchList, MaxPageEvents), has_columns \in BOOLEAN :
          /\ has_columns \/ s = <<>>
          /\ attempts' = Append(attempts, Attempt(SeasonRange(year, year), TRUE, FetchedFrame(s, has_columns)))
          /\ data' = FetchedFrame(s, has_columns)
    /\ messages' = Append(messages, Message("success", "Data loaded successfully!"))
    /\ pc' = "page_loaded"
    /\ PageUnchanged

\* the first failure ends the load with the empty frame, without a fallback
LoadFirstFailsGivesUp ==
    /\ pc = "load_first"
    /\ attempts' = Append(attempts, Attempt(SeasonRange(year, year), FALSE, NoColumnsFrame))
    /\ messages' = Append(messages, Message("error", "Failed to load data"))
    /\ data' = NoColumnsFrame
    /\ pc' = "page_loaded"
    /\ PageUnchanged

\* statcast() for the requested range raises
LoadFirstFails ==
    /\ pc = "load_first"
    /\ attempts' = Append(attempts, Attempt(SeasonRange(year, year), FALSE, NoColumnsFrame))
    /\ messages' = Append(messages, Message("error", "Error loading data"))
    /\ pc' = "load_fallback"
    /\ UNCHANGED data
    /\ PageUnchanged

\* statcast() for the last 21 days returns
LoadFallbackSucceeds ==
    /\ pc = "load_fallback"
    /\ \E s \in EventLists(PagePlayers, PagePitchList, MaxPageEvents), has_columns \in BOOLEAN :
          /\ has_columns \/ s = <<>>
          /\ attempts' = Append(attempts, Attempt(FallbackRange, TRUE, FetchedFrame(s, has_columns)))
          /\ data' = FetchedFrame(s, has_columns)
    /\ messages' = Append(messages,
                          Message("success", "Data loaded successfully with reduced date range!"))
    /\ pc' = "page_loaded"
    /\ PageUnchanged

\* statcast() for the last 21 days raises: pd.DataFrame() is returned
LoadFallbackFails ==
    /\ pc = "load_fallback"
    /\ attempts' = Append(attempts, Attempt(FallbackRange, FALSE, NoColumnsFrame))
    /\ messages' = Append(messages, Message("error", "Failed to load data"))
    /\ data' = NoColumnsFrame
    /\ pc' = "page_loaded"
    /\ PageUnchanged

\* else branch of "if not data.empty"
ShowLoadError ==
    /\ pc = "page_loaded"
    /\ IsEmpty(data)
    /\ messages' = Append(messages,
                          Message("error", "Failed to load Statcast data. Please try again later."))
    /\ pc' = "done"
    /\ UNCHANGED <<year, min_pitches, attempts, data, player_names_dict,
                   formatted_to_original, formatted_player_names,
                   selected_formatted_player, selected_player, pitch_results,
                   league_avg, comparison_data, rendered, divisions, name,
                   formatted>>

\* classification and the two name dictionaries
ProcessData ==
    /\ pc = "page_loaded"
    /\ ~IsEmpty(data)
    /\ data' = calculate_out_percentage(data)
    /\ LET keys == RawPlayerNames(data')
       IN  /\ player_names_dict' =
                 [n \in {keys[i] : i \in 1..Len(keys)} |-> format_player_name(n)]
           /\ formatted_to_original' = FormattedToOriginal(keys, EmptyDict)
           /\ formatted_player_names' =
                 SortNameSeq([i \in 1..Len(keys) |-> format_player_name(keys[i])])
    /\ pc' = "select"
    /\ UNCHANGED <<year, min_pitches, attempts, messages,
                   selected_formatted_player, selected_player, pitch_results,
                   league_avg, comparison_data, rendered, divisions, name,
                   formatted>>

\* the user picks one of the offered names; it is mapped back to a raw name
SelectPlayer ==
    /\ pc = "select"
    /\ formatted_player_names # <<>>
    /\ \E i \in 1..Len(formatted_player_names) :
          /\ selected_formatted_player' = formatted_player_names[i]
          /\ selected_player' = formatted_to_original[formatted_player_names[i]]
    /\ pc' = "selected"
    /\ UNCHANGED <<year, min_pitches, attempts, messages, data,
                   player_names_dict, formatted_to_original,
                   formatted_player_names, pitch_results, league_avg,
                   comparison_data, rendered, divisions, name, formatted>>

\* a select box without options returns None, and formatted_to_original[None]
\* raises KeyError, which nothing catches
SelectWithoutOptions ==
    /\ pc = "select"
    /\ formatted_player_names = <<>>
    /\ selected_formatted_player' = NoneName
    /\ pc' = "fault"
    /\ UNCHANGED <<year, min_pitches, attempts, messages, data,
                   player_names_dict, formatted_to_original,
                   formatted_player_names, selected_player, pitch_results,
                   league_avg, comparison_data, rendered, divisions, name,
                   formatted>>

\* "if selected_player:" and the player's aggregation with the section header
AnalyzePlayer ==
    /\ pc = "selected"
    /\ IF selected_player = <<>>
       THEN /\ pc' = "done"
            /\ UNCHANGED <<pitch_results, divisions, messages>>
       ELSE /\ pitch_results' =
                  get_out_percentage_by_pitch_type(data, selected_player, year, min_pitches)
            /\ divisions' = divisions \cup Denominators(pitch_results')
            /\ messages' = Append(messages, Message("header", "Out Percentage Analysis"))
            /\ pc' = IF pitch_results'.raised THEN "fault" ELSE "analyzed"
    /\ UNCHANGED <<year, min_pitches, attempts, data, player_names_dict,
                   formatted_to_original, formatted_player_names,
                   selected_formatted_player, selected_player, league_avg,
                   comparison_data, rendered, name, formatted>>

\* first column: the table and the summary with the overall out percentage
RenderBreakdown ==
    /\ pc = "analyzed"
    /\ pitch_results.rows # <<>>
    /\ LET total_pitches == SumField(pitch_results.rows, "total_pitches")
           total_outs == SumField(pitch_results.rows, "out_pitch_count")
       IN  /\ divisions' = divisions \cup {total_pitches}
           /\ rendered' = rendered \cup
                 {[widget |-> "table",
                   content |-> SortByOutPercentageDesc(pitch_results.rows)],
                  [widget |-> "summary",
                   content |-> <<total_pitches, total_outs,
                                 RoundPct(total_outs, total_pitches)>>]}
    /\ pc' = "charts"
    /\ UNCHANGED <<year, min_pitches, attempts, messages, data,
                   player_names_dict, formatted_to_original,
                   formatted_player_names, selected_formatted_player,
                   selected_player, pitch_results, league_avg, comparison_data,
                   name, formatted>>

\* second column: the pie chart, the league baseline and the comparison chart
RenderCharts ==
    /\ pc = "charts"
    /\ league_avg' = get_league_avg_out_percentage(data, year, min_pitches)
    /\ divisions' = divisions \cup Denominators(league_avg')
    /\ comparison_data' =
          Comparison(SortByOutPercentageDesc(pitch_results.rows), league_avg',
                     selected_formatted_player)
    /\ rendered' = rendered \cup
          {[widget |-> "pie", content |-> pitch_results.rows],
           [widget |-> "bar", content |-> comparison_data']}
    /\ pc' = IF league_avg'.raised THEN "fault" ELSE "done"
    /\ UNCHANGED <<year, min_pitches, attempts, messages, data,
                   player_names_dict, formatted_to_original,
                   formatted_player_names, selected_formatted_player,
                   selected_player, pitch_results, name, formatted>>

\* else branch of "if not pitch_results.empty"
ShowNoDataWarning ==
    /\ pc = "analyzed"
    /\ pitch_results.rows = <<>>
    /\ messages' = Append(messages, Message("warning", "No pitch data available"))
    /\ pc' = "done"
    /\ UNCHANGED <<year, min_pitches, attempts, data, player_names_dict,
                   formatted_to_original, formatted_player_names,
                   selected_formatted_player, selected_player, pitch_results,
                   league_avg, comparison_data, rendered, divisions, name,
                   formatted>>

Next ==
    \/ LoadFirstSucceeds
    \/ LoadFirstFails
    \/ LoadFallbackSucceeds
    \/ LoadFallbackFails
    \/ ShowLoadError
    \/ ProcessData
    \/ SelectPlayer
    \/ SelectWithoutOptions
    \/ AnalyzePlayer
    \/ RenderBreakdown
    \/ RenderCharts
    \/ ShowNoDataWarning

Spec == Init /\ [][Next]_vars

----------------------------------------------------------------------------
(* Claims about load_statcast_data and the page (specification Spec) *)

Loading == pc \in {"load_first", "load_fallback"}
BothAttemptsFailed == Len(attempts) = 2 /\ ~attempts[1].ok /\ ~attempts[2].ok
Reported(kind, text) == \E i \in 1..Len(messages) : messages[i] = Message(kind, text)
ErrorReported == \E i \in 1..Len(messages) : messages[i].kind = "error"

\* at most two attempts, the requested range first, the fallback only after
\* the first failed; the value returned is the first result that succeeded
LoadAttemptsInOrder ==
    /\ Len(attempts) <= 2
    /\ (Len(attempts) >= 1 => attempts[1].range = SeasonRange(year, year))
    /\ (Len(attempts) = 2 => ~attempts[1].ok /\ attempts[2].range = FallbackRange)
    /\ (pc = "load_fallback" => Len(attempts) = 1 /\ ~attempts[1].ok)
    /\ (~Loading => Len(attempts) >= 1)
    /\ (pc = "page_loaded" =>
          /\ (attempts[1].ok => Len(attempts) = 1 /\ data = attempts[1].result)
          /\ (~attempts[1].ok => Len(attempts) = 2)
          /\ (Len(attempts) = 2 /\ attempts[2].ok => data = attempts[2].result)
          /\ (BothAttemptsFailed => IsEmpty(data) /\ ErrorReported))

(* C1 as stated: load_statcast_data makes at most two fetch attempts, the
   requested range first and the fallback range only after the first failed;
   it returns the first attempt's data if that succeeds, the fallback's data
   if the first fails and the fallback succeeds, and an empty dataset with an
   error reported to the user if and only if both attempts fail. *)
LoadEmptyWithErrorIffBothFail ==
    /\ LoadAttemptsInOrder
    /\ (pc = "page_loaded" => ((IsEmpty(data) /\ ErrorReported) <=> BothAttemptsFailed))

(* C1 as amended: the same order and return values; the error "Failed to
   load data" is reported, together with an empty dataset, if and only if
   both attempts fail (an attempt that succeeds may itself return an empty
   dataset, and "Error loading data" is reported whenever the first attempt
   fails). *)
LoadFailureReportedIffBothFail ==
    /\ LoadAttemptsInOrder
    /\ (pc = "page_loaded" =>
          ((IsEmpty(data) /\ Reported("error", "Failed to load data")) <=> BothAttemptsFailed))

\* both attempts failed and the load has returned
LoadBothFailedWitness ==
    /\ pc = "page_loaded"
    /\ BothAttemptsFailed
    /\ data = NoColumnsFrame
    /\ Reported("error", "Failed to load data")

Shown(w) == \E r \in rendered : r.widget = w

EndsWithLoadError ==
    /\ IsEmpty(data)
    /\ Reported("error", "Failed to load Statcast data. Please try again later.")
    /\ "IsOutPitch" \notin data.columns
    /\ pitch_results = NoResult /\ league_avg = NoResult
    /\ rendered = {}

EndsWithNoDataWarning ==
    /\ ~IsEmpty(data)
    /\ pitch_results.rows = <<>>
    /\ Reported("warning", "No pitch data available")
    /\ rendered = {}

EndsRendered ==
    /\ ~IsEmpty(data)
    /\ pitch_results.rows # <<>>
    /\ Shown("table") /\ Shown("summary") /\ Shown("pie") /\ Shown("bar")
    /\ ~Reported("warning", "No pitch data available")

(* C6: every run of the page ends in exactly one of three handled states,
   the load error, the no-data warning or the rendered analysis, and never
   in an unhandled fault, also for a dataset without any player name. *)
PageEndsHandled ==
    /\ pc # "fault"
    /\ (pc = "done" =>
          \/ (EndsWithLoadError /\ ~EndsWithNoDataWarning /\ ~EndsRendered)
          \/ (~EndsWithLoadError /\ EndsWithNoDataWarning /\ ~EndsRendered)
          \/ (~EndsWithLoadError /\ ~EndsWithNoDataWarning /\ EndsRendered))

(* C8: no ratio is evaluated with a zero denominator: every group formed by
   either aggregation has total_pitches >= 1 when out_percentage is divided,
   kept by the threshold or not, and the overall out percentage of the page
   is divided by a sum of total_pitches >= 1. *)
NoZeroDenominator ==
    /\ \A n \in divisions : n >= 1
    /\ \A i \in 1..Len(pitch_results.groups) :
          /\ pitch_results.groups[i].total_pitches >= 1
          /\ pitch_results.groups[i].out_percentage # NaNPct
    /\ \A i \in 1..Len(league_avg.groups) :
          /\ league_avg.groups[i].total_pitches >= 1
          /\ league_avg.groups[i].out_percentage # NaNPct
    /\ \A r \in rendered :
          r.widget = "summary" => r.content[1] >= 1 /\ r.content[3] # NaNPct

\* the page is rendered, and a group below the threshold went through the
\* division before it was dropped
NoZeroDenominatorWitness ==
    /\ pc = "done"
    /\ Shown("summary")
    /\ Len(league_avg.groups) >= 1
    /\ \E i \in 1..Len(pitch_results.groups) :
          pitch_results.groups[i].total_pitches < min_pitches

(* C9: every pitch type with a row in the player result has a row in the
   league result of the same dataset, year and min_pitches, with
   total_pitches and out_pitch_count at least the player's; the comparison
   chart never substitutes 0 for a missing league row. *)
LeagueCoversPlayer ==
    pc = "done" /\ pitch_results.rows # <<>> =>
        /\ \A i \in 1..Len(pitch_results.rows) :
              \E j \in 1..Len(league_avg.rows) :
                 /\ league_avg.rows[j].pitch_type = pitch_results.rows[i].pitch_type
                 /\ league_avg.rows[j].total_pitches >= pitch_results.rows[i].total_pitches
                 /\ league_avg.rows[j].out_pitch_count >= pitch_results.rows[i].out_pitch_count
        /\ Len(comparison_data) = 2 * Len(pitch_results.rows)
        /\ \A k \in 1..Len(comparison_data) : comparison_data[k].from_league_row

\* a comparison was drawn where the league has more pitches of the type than
\* the selected player
LeagueCoversPlayerWitness ==
    /\ pc = "done"
    /\ \E i \in 1..Len(pitch_results.rows), j \in 1..Len(league_avg.rows) :
          /\ league_avg.rows[j].pitch_type = pitch_results.rows[i].pitch_type
          /\ league_avg.rows[j].total_pitches > pitch_results.rows[i].total_pitches
    /\ Len(comparison_data) >= 2

(* C10: the display-name round trip loses no player: every raw player name
   is reached by selecting some display name, and the raw name used for
   filtering formats to the display name that was selected. *)
EveryPlayerSelectable ==
    /\ \A raw \in DOMAIN player_names_dict :
          \E i \in 1..Len(formatted_player_names) :
             formatted_to_original[formatted_player_names[i]] = raw
    /\ (pc = "selected" => format_player_name(selected_player) = selected_formatted_player)

----------------------------------------------------------------------------
(* Claims about the aggregations (specification SpecAgg) *)

PlayerEvents(t) ==
    {i \in 1..Len(data.rows) :
        /\ data.rows[i].player_name = selected_player
        /\ data.rows[i].game_year = year
        /\ data.rows[i].pitch_type = t}

LeagueEvents(t) ==
    {i \in 1..Len(data.rows) :
        data.rows[i].game_year = year /\ data.rows[i].pitch_type = t}

OutsAmong(S) == {i \in S : data.rows[i].IsOutPitch}

\* pct is out / total * 100 rounded to 2 decimals: the hundredth nearest to
\* the quotient
IsRounded(pct, out, total) ==
    /\ 2 * (pct * total - out * 10000) <= total
    /\ 2 * (out * 10000 - pct * total) <= total

RowMatches(row, S) ==
    /\ row.total_pitches = Cardinality(S)
    /\ row.out_pitch_count = Cardinality(OutsAmong(S))
    /\ 0 <= row.out_pitch_count
    /\ row.out_pitch_count <= row.total_pitches
    /\ IsRounded(row.out_percentage, row.out_pitch_count, row.total_pitches)

PlayerDone == pc \in {"agg_player", "agg_league"} /\ ~pitch_results.raised
LeagueDone == pc = "agg_league" /\ ~league_avg.raised

(* C2: every row returned by either aggregation has total_pitches equal to
   the number of events of its pitch type that match the filter,
   out_pitch_count equal to the number of those with IsOutPitch,
   0 <= out_pitch_count <= total_pitches, and out_percentage equal to
   out_pitch_count / total_pitches * 100 rounded to 2 decimals. *)
RowsCountAndRatio ==
    /\ (PlayerDone =>
          \A i \in 1..Len(pitch_results.rows) :
             RowMatches(pitch_results.rows[i], PlayerEvents(pitch_results.rows[i].pitch_type)))
    /\ (LeagueDone =>
          \A i \in 1..Len(league_avg.rows) :
             RowMatches(league_avg.rows[i], LeagueEvents(league_avg.rows[i].pitch_type)))

\* a player row with 2 outs in 3 pitches at 66.67 and a league row
RowsCountAndRatioWitness ==
    /\ pc = "agg_league"
    /\ \E i \in 1..Len(pitch_results.rows) :
          /\ pitch_results.rows[i].total_pitches = 3
          /\ pitch_results.rows[i].out_pitch_count = 2
          /\ pitch_results.rows[i].out_percentage = 6667
    /\ Len(league_avg.rows) >= 1

RowsOf(result, t) == {i \in 1..Len(result.rows) : result.rows[i].pitch_type = t}

PitchTypesIn(d) == {d.rows[i].pitch_type : i \in 1..Len(d.rows)} \ {NaN}

(* C3: no returned row has total_pitches < min_pitches; every pitch-type
   group with at least min_pitches matching events appears exactly once; a
   group below the threshold is absent. *)
ThresholdLaw ==
    /\ (PlayerDone =>
          /\ \A i \in 1..Len(pitch_results.rows) :
                pitch_results.rows[i].total_pitches >= min_pitches
          /\ \A t \in PitchTypesIn(data) :
                Cardinality(RowsOf(pitch_results, t)) =
                   IF Cardinality(PlayerEvents(t)) >= min_pitches THEN 1 ELSE 0)
    /\ (LeagueDone =>
          /\ \A i \in 1..Len(league_avg.rows) :
                league_avg.rows[i].total_pitches >= min_pitches
          /\ \A t \in PitchTypesIn(data) :
                Cardinality(RowsOf(league_avg, t)) =
                   IF Cardinality(LeagueEvents(t)) >= min_pitches THEN 1 ELSE 0)

\* one pitch type is kept with exactly min_pitches pitches while another,
\* below the threshold, is dropped
ThresholdLawWitness ==
    /\ pc = "agg_league"
    /\ min_pitches = 2
    /\ \E i \in 1..Len(pitch_results.rows) : pitch_results.rows[i].total_pitches = min_pitches
    /\ \E t \in PitchTypesIn(data) :
          /\ Cardinality(PlayerEvents(t)) = 1
          /\ RowsOf(pitch_results, t) = {}

(* C5: on an empty dataset, the one load_statcast_data returns after both
   fetches fail included, and on a dataset without an event matching the
   filter, both aggregations return no rows and do not raise. *)
EmptyInputGivesEmptyResult ==
    /\ (pc \in {"agg_player", "agg_league"}
          /\ (IsEmpty(data) \/ \A t \in PitchTypesIn(data) \cup {NaN} : PlayerEvents(t) = {})
          => ~pitch_results.raised /\ pitch_results.rows = <<>>)
    /\ (pc = "agg_league"
          /\ (IsEmpty(data) \/ \A t \in PitchTypesIn(data) \cup {NaN} : LeagueEvents(t) = {})
          => ~league_avg.raised /\ league_avg.rows = <<>>)

----------------------------------------------------------------------------
(* Claim about calculate_out_percentage (specification SpecClassify) *)

OutProducingOutcomes ==
    {"field_out", "strikeout", "grounded_into_double_play", "fielders_choice_out",
     "force_out", "sac_fly", "sac_bunt", "strikeout_double_play", "double_play",
     "sac_fly_double_play", "other_out", "triple_play", "sac_bunt_double_play"}

ClassifiedFrom(before, after) ==
    /\ Len(after.rows) = Len(before.rows)
    /\ \A i \in 1..Len(before.rows) :
          /\ after.rows[i].IsOutPitch \in BOOLEAN
          /\ after.rows[i].IsOutPitch = (before.rows[i].events \in OutProducingOutcomes)
          /\ after.rows[i].events = before.rows[i].events
          /\ after.rows[i].player_name = before.rows[i].player_name
          /\ after.rows[i].game_year = before.rows[i].game_year
          /\ after.rows[i].pitch_type = before.rows[i].pitch_type

(* C4: calculate_out_percentage is total: IsOutPitch is true exactly for the
   13 out-producing outcomes, false for a null outcome and for any other
   string, it never raises, and the number and order of events is
   unchanged. *)
ClassificationIsTotal ==
    [][pc = "classify_input" => pc' = "classify_done" /\ ClassifiedFrom(data, data')]_vars

\* a dataset with a null outcome and the last outcome of the list has been
\* classified
ClassificationWitness ==
    /\ pc = "classify_done"
    /\ Len(data.rows) = 2
    /\ data.rows[1].events = NaN /\ ~data.rows[1].IsOutPitch
    /\ data.rows[2].events = "sac_bunt_double_play" /\ data.rows[2].IsOutPitch

----------------------------------------------------------------------------
(* Claim about format_player_name (specification SpecName) *)

\* SubSeq(s, i, j) is s without its leading and trailing whitespace
TrimBounds(s, i, j) ==
    /\ \A k \in 1..(i - 1) : s[k] \in Whitespace
    /\ \A k \in (j + 1)..Len(s) : s[k] \in Whitespace
    /\ (i <= j => s[i] \notin Whitespace /\ s[j] \notin Whitespace)
    /\ (i > j => \A k \in 1..Len(s) : s[k] \in Whitespace)

IsTrimmedSwap(result, before, after) ==
    \E i1 \in 1..(Len(after) + 1), j1 \in 0..Len(after),
       i2 \in 1..(Len(before) + 1), j2 \in 0..Len(before) :
        /\ TrimBounds(after, i1, j1)
        /\ TrimBounds(before, i2, j2)
        /\ result = SubSeq(after, i1, j1) \o <<" ">> \o SubSeq(before, i2, j2)

(* C7: format_player_name splits only on the first comma: a name with a
   comma becomes the trimmed text after its first comma, one space, the
   trimmed text before its first comma; a name without a comma is returned
   unchanged. *)
FormatSplitsOnFirstComma ==
    pc = "name_done" =>
        IF \E i \in 1..Len(name) : name[i] = ","
        THEN \E i \in 1..Len(name) :
                /\ name[i] = ","
                /\ \A k \in 1..(i - 1) : name[k] # ","
                /\ IsTrimmedSwap(formatted, SubSeq(name, 1, i - 1),
                                 SubSeq(name, i + 1, Len(name)))
        ELSE formatted = name

\* a name with two commas and padding has been formatted
FormatSplitsWitness ==
    /\ pc = "name_done"
    /\ name = <<"b", ",", " ", ",">>
    /\ formatted = <<",", " ", "b">>

====
